---------------------------- MODULE Spec2Model ----------------------------
(***************************************************************************)
(* Model of the heartland-webhook transaction handler: the completion      *)
(* strategies (type-and-status, balance-based, completed-timestamp,        *)
(* inventory-non-negative) and the orchestrator evaluateChecks that runs   *)
(* a list of strategies against one transaction.                           *)
(*                                                                         *)
(* JavaScript values are tagged records [t, n, s, b]: t is the result of   *)
(* `typeof`, n the number, s the string, b the boolean.  Amounts of money  *)
(* (balance) are counted in units of 0.00001, so that the tolerance        *)
(* 0.0001 of the balance strategy is the integer 10.                       *)
(***************************************************************************)
EXTENDS Integers, Sequences, FiniteSets, TLC

VARIABLES
    tx,            \* the HeartlandTransaction under evaluation
    strategies,    \* the strategy list handed to evaluateChecks
    pc,            \* position of evaluateChecks: loop / awaiting / done / rejected
    idx,           \* index of the strategy the for-loop is at (1-based)
    checks,        \* const checks: CheckSummary[]
    overall,       \* let overall
    anyExecuted,   \* let anyExecuted
    ret,           \* the object evaluateChecks resolved with
    world,         \* what the Heartland API would answer (ticket lines)
    inv,           \* the state of one InventoryNonNegativeStrategy.checkTx call
    pa,            \* the state of one PriceAdjustedItemStrategy.checkTx call
    hd,            \* the state of one HighDiscountTicketStrategy.checkTx call
    boot,          \* the module state of index.ts: environment, caches, build
    calls,         \* the supports and checkTx calls evaluateChecks has made
    itemReq        \* the state of one request to the item_created handler

vars ==
    <<tx, strategies, pc, idx, checks, overall, anyExecuted, ret, world, inv,
      pa, hd, boot, calls, itemReq>>

evalVars ==
    <<tx, strategies, pc, idx, checks, overall, anyExecuted, ret, calls>>
invVars == <<world, inv>>
runVars == <<pa, hd, boot, itemReq>>

---------------------------------------------------------------------------
(* JavaScript values                                                       *)

Undefined == [t |-> "undefined", n |-> 0, s |-> "", b |-> FALSE]
Null == [t |-> "object", n |-> 0, s |-> "", b |-> FALSE]
Num(x) == [t |-> "number", n |-> x, s |-> "", b |-> FALSE]
Str(x) == [t |-> "string", n |-> 0, s |-> x, b |-> FALSE]
Bool(x) == [t |-> "boolean", n |-> 0, s |-> "", b |-> x]

TypeOf(v) == v.t

\* Boolean(v) / the truthiness `||` tests
Truthy(v) ==
    CASE v.t = "number" -> v.n # 0
      [] v.t = "string" -> v.s # ""
      [] v.t = "boolean" -> v.b
      [] OTHER -> FALSE

\* a || b
JsOr(a, b) == IF Truthy(a) THEN a ELSE b

\* String.prototype.toLowerCase on the status strings of the model
ToLowerCase(s) ==
    CASE s = "Complete" -> "complete"
      [] s = "COMPLETE" -> "complete"
      [] s = "Pending" -> "pending"
      [] OTHER -> s

Abs(x) == IF x < 0 THEN -x ELSE x

\* 0.0001 in units of 0.00001
BALANCE_TOLERANCE == 10

---------------------------------------------------------------------------
(* The three base strategies                                               *)

TypeAndStatusSupports(t) == TRUE

\* a false completion flag falling through to the status test
TypeAndStatusCheckTxFallThrough(t) ==
    IF TypeOf(t.completed) = "boolean" /\ t.completed.b THEN TRUE
    ELSE IF TypeOf(t.status) = "string"
         THEN ToLowerCase(t.status.s) = "complete"
         ELSE FALSE

TypeAndStatusCheckTx(t) ==
    IF TypeOf(t.completed) = "boolean" THEN t.completed.b = TRUE
    ELSE IF TypeOf(t.status) = "string"
         THEN ToLowerCase(t.status.s) = "complete"
         ELSE FALSE

\* a balance strategy that applies to every transaction
BalanceSupportsAlways(t) == TRUE

BalanceSupports(t) == TypeOf(t.balance) = "number"

\* the tolerance compared with <= instead of <
BalanceCheckTxInclusive(t) ==
    IF TypeOf(t.balance) # "number" THEN FALSE
    ELSE Abs(t.balance.n) <= BALANCE_TOLERANCE

BalanceCheckTx(t) ==
    IF TypeOf(t.balance) # "number" THEN FALSE
    ELSE Abs(t.balance.n) < BALANCE_TOLERANCE

\* supports that asks for a non-empty string
CompletedTimestampSupportsNonEmpty(t) ==
    \/ TypeOf(t.completed_at) = "string" /\ t.completed_at.s # ""
    \/ TypeOf(t.local_completed_at) = "string" /\ t.local_completed_at.s # ""

CompletedTimestampSupports(t) ==
    \/ TypeOf(t.completed_at) = "string"
    \/ TypeOf(t.local_completed_at) = "string"

CompletedTimestampCheckTx(t) ==
    Truthy(JsOr(t.completed_at, t.local_completed_at))


---------------------------------------------------------------------------
(* Strategies as evaluateChecks sees them.  A strategy of the list is one  *)
(* of the built-in classes (its supports and checkTx are computed from the *)
(* transaction) or a stub whose supports and checkTx behave as scripted:   *)
(* supports returns true or false or throws, checkTx resolves true or      *)
(* false, throws synchronously or rejects.                                 *)

Builtin(name) == [name |-> name, sup |-> "code", out |-> "code"]
Stub(sup, out) == [name |-> "stub", sup |-> sup, out |-> out]

TypeAndStatusCompletionStrategy == Builtin("type-and-status")
BalanceCompletionStrategy == Builtin("balance-based")
CompletedTimestampStrategy == Builtin("completed-timestamp")

BoolResult(b) == IF b THEN "true" ELSE "false"

\* strategy.supports(tx): "true", "false" or "throw"
Supports(s, t) ==
    CASE s.name = "type-and-status" -> BoolResult(TypeAndStatusSupports(t))
      [] s.name = "balance-based" -> BoolResult(BalanceSupports(t))
      [] s.name = "completed-timestamp" -> BoolResult(CompletedTimestampSupports(t))
      [] OTHER -> s.sup

\* how the promise of strategy.checkTx(tx) settles:
\* "true", "false", "throw" or "reject"
CheckTxOutcome(s, t) ==
    CASE s.name = "type-and-status" -> BoolResult(TypeAndStatusCheckTx(t))
      [] s.name = "balance-based" -> BoolResult(BalanceCheckTx(t))
      [] s.name = "completed-timestamp" -> BoolResult(CompletedTimestampCheckTx(t))
      [] OTHER -> s.out

---------------------------------------------------------------------------
(* evaluateChecks                                                          *)

\* a catch block that leaves every outcome but an explicit false as passed
CaughtPassedUnlessFalse(outcome) == outcome # "false"

\* try { passed = await strategy.checkTx(tx) } catch { passed = false }
CaughtPassed(outcome) ==
    IF outcome \in {"throw", "reject"} THEN FALSE ELSE outcome = "true"

\* if (!passed) overall = false
NextOverall(o, passed) == IF ~passed THEN FALSE ELSE o

\* the return without the anyExecuted test
FinalOverallUnguarded(o, any) == o

\* if (!anyExecuted) overall = false
FinalOverall(o, any) == IF ~any THEN FALSE ELSE o

CheckSummary(name, executed, passed) ==
    [name |-> name, executed |-> executed, passed |-> passed]

\* an unsupported strategy reported as one that ran
SkippedSummaryAsExecuted(name) == CheckSummary(name, TRUE, FALSE)

\* checks.push({name, executed: false, passed: false})
SkippedSummary(name) == CheckSummary(name, FALSE, FALSE)

NoResult == [check |-> FALSE, checks |-> <<>>, returned |-> FALSE]

\* no call made yet: the positions supports and checkTx were called on, in
\* call order, and the number of checkTx promises not yet settled
NoCalls == [supports |-> << >>, checkTx |-> << >>, inFlight |-> 0]

\* a loop that goes on while the promise of checkTx is pending
LoopRunsWithoutAwait(p) == p \in {"loop", "awaiting"}

\* the for-loop runs unless it is suspended at `await strategy.checkTx(tx)`
LoopRuns(p) == p = "loop"

\* const supported = strategy.supports(tx), and the `if (!supported)` branch.
\* supports is called outside the try block: an exception it throws leaves
\* evaluateChecks as a rejection.
CallSupports ==
    /\ LoopRuns(pc)
    /\ idx <= Len(strategies)
    /\ LET supported == Supports(strategies[idx], tx)
           called == [calls EXCEPT !.supports = Append(@, idx)]
       IN
         CASE supported = "throw" ->
                /\ pc' = "rejected"
                /\ calls' = called
                /\ UNCHANGED <<idx, checks>>
           [] supported = "false" ->
                /\ checks' = Append(checks, SkippedSummary(strategies[idx].name))
                /\ idx' = idx + 1
                /\ pc' = "loop"
                /\ calls' = called
           [] OTHER ->
                /\ pc' = "awaiting"
                /\ calls' = [called EXCEPT !.checkTx = Append(@, idx),
                                           !.inFlight = @ + 1]
                /\ UNCHANGED <<idx, checks>>
    /\ UNCHANGED <<tx, strategies, overall, anyExecuted, ret, invVars, runVars>>

\* the awaited checkTx settles; the rest of the loop body runs
SettleCheckTx ==
    /\ pc = "awaiting"
    /\ LET passed == CaughtPassed(CheckTxOutcome(strategies[idx], tx)) IN
         /\ checks' = Append(checks,
                             CheckSummary(strategies[idx].name, TRUE, passed))
         /\ anyExecuted' = TRUE
         /\ overall' = NextOverall(overall, passed)
    /\ idx' = idx + 1
    /\ pc' = "loop"
    /\ calls' = [calls EXCEPT !.inFlight = @ - 1]
    /\ UNCHANGED <<tx, strategies, ret, invVars, runVars>>

\* after the loop: the anyExecuted test and the return
Return ==
    /\ pc = "loop"
    /\ idx > Len(strategies)
    /\ overall' = FinalOverall(overall, anyExecuted)
    /\ ret' = [check |-> overall', checks |-> checks, returned |-> TRUE]
    /\ pc' = "done"
    /\ UNCHANGED <<tx, strategies, idx, checks, anyExecuted, calls, invVars,
                   runVars>>

---------------------------------------------------------------------------
(* Inputs of the orchestrator                                              *)

MaxStrategies == 3

SeqUpTo(S, n) == UNION {[1..k -> S] : k \in 0..n}

Timestamp == "2025-01-01T00:00:00Z"

Transaction(completed, status, balance, completed_at, local_completed_at) ==
    [id |-> Num(1001), type |-> Str("sale"), total |-> Undefined,
     source_location_id |-> Undefined,
     completed |-> completed, status |-> status, balance |-> balance,
     completed_at |-> completed_at,
     local_completed_at |-> local_completed_at]

CompletedValues == {Undefined, Bool(TRUE), Bool(FALSE), Str("true")}
StatusValues == {Undefined, Str("complete"), Str("Complete"), Str("pending"), Num(1)}
BalanceValues == {Undefined, Num(0), Num(9), Num(10), Num(-9), Num(-10),
                  Num(500000), Str("0")}
CompletedAtValues == {Undefined, Str(""), Str(Timestamp), Num(1)}
LocalCompletedAtValues == {Undefined, Str(""), Str(Timestamp)}

TxBaseSet ==
    {Transaction(c, s, b, ca, lca) :
        c \in CompletedValues, s \in StatusValues, b \in BalanceValues,
        ca \in CompletedAtValues, lca \in LocalCompletedAtValues}

\* {id: 1001, type: "sale", "completed?": true}
TxOnlyCompleted ==
    Transaction(Bool(TRUE), Undefined, Undefined, Undefined, Undefined)

\* balance 5 with status Complete and the completion flag set
TxBalanceFive ==
    Transaction(Bool(TRUE), Str("Complete"), Num(500000), Undefined, Undefined)

TxSmall == {TxOnlyCompleted, TxBalanceFive}

Stubs ==
    {Stub("true", o) : o \in {"true", "false", "throw", "reject"}}
      \cup {Stub("false", "true"), Stub("false", "throw"), Stub("throw", "true")}

BaseStrategies ==
    <<TypeAndStatusCompletionStrategy, BalanceCompletionStrategy,
      CompletedTimestampStrategy>>

AllStrategies == Stubs \cup {BaseStrategies[i] : i \in 1..3}

\* the three base strategies, alone or followed by one more strategy
BaseLists ==
    {BaseStrategies} \cup {Append(BaseStrategies, s) : s \in Stubs}

\* no checkTx of the inventory strategy is running
InvIdle ==
    [pc |-> "idle", itemIds |-> <<>>, k |-> 0, rowsLeft |-> 0,
     negatives |-> <<>>, seen |-> <<>>, sent |-> <<>>, sendFailed |-> FALSE,
     result |-> "none"]

NoWorld == [linesMode |-> "ok", lines |-> <<>>, groupMe |-> FALSE]

\* no checkTx of the price-adjusted-item strategy is running
PaIdle ==
    [pc |-> "idle", adjustedItems |-> <<>>, sent |-> <<>>,
     sendFailed |-> FALSE, result |-> "none"]

\* no checkTx of the high-discount-ticket strategy is running
HdIdle == [pc |-> "idle", sent |-> 0, sendFailed |-> FALSE, result |-> "none"]

\* what secretsClient.send settles with
Secret(rejects, SecretString) ==
    [rejects |-> rejects, SecretString |-> SecretString]

NoSecret == Secret(FALSE, Undefined)

\* no response was returned by the handler
NoResponse ==
    [statusCode |-> 0, status |-> "", transactionKind |-> "",
     check |-> FALSE, checks |-> << >>]

\* no strategy array: id is the identity of the array object
NoList == [id |-> 0, names |-> << >>]

\* index.ts is not loaded
BootIdle ==
    [pc |-> "idle",
     env |-> [baseUrl |-> Undefined, secretArn |-> Undefined,
              botId |-> Undefined],
     secret |-> NoSecret,
     secretCalls |-> 0,
     cachedHeartlandToken |-> Null,
     cachedStrategies |-> << >>,
     listId |-> 0,
     constructed |-> 0,
     builds |-> 0,
     first |-> NoList,
     returned |-> NoList,
     groupMeClient |-> FALSE,
     invocations |-> 0,
     inFlight |-> FALSE,
     body |-> "",
     kind |-> "",
     response |-> NoResponse]

\* no request to the item_created handler
ItemIdle ==
    [pc |-> "idle",
     body |-> "none",
     bricklinkId |-> Undefined,
     subDepartment |-> Undefined,
     env |-> [baseUrl |-> Undefined, secretArn |-> Undefined,
              s3Path |-> Undefined, botId |-> Undefined],
     cachedSecrets |-> FALSE,
     imageFailureReason |-> Null,
     imageUrl |-> Undefined,
     messages |-> 0,
     tagsUpdated |-> FALSE,
     response |-> [statusCode |-> 0, status |-> ""]]

RunsIdle == pa = PaIdle /\ hd = HdIdle /\ boot = BootIdle /\ itemReq = ItemIdle

Init ==
    /\ \/ tx \in TxBaseSet /\ strategies \in BaseLists
       \/ tx \in TxSmall /\ strategies \in SeqUpTo(AllStrategies, MaxStrategies)
    /\ pc = "loop"
    /\ idx = 1
    /\ checks = <<>>
    /\ overall = TRUE
    /\ anyExecuted = FALSE
    /\ ret = NoResult
    /\ calls = NoCalls
    /\ world = NoWorld
    /\ inv = InvIdle
    /\ RunsIdle

Next == CallSupports \/ SettleCheckTx \/ Return

Spec == Init /\ [][Next]_vars

\* the event loop runs every continuation that is ready, and every awaited
\* checkTx settles
SpecFair ==
    /\ Init
    /\ [][Next]_vars
    /\ WF_vars(CallSupports)
    /\ WF_vars(SettleCheckTx)
    /\ WF_vars(Return)

---------------------------------------------------------------------------
(* InventoryNonNegativeStrategy, the class with EXCLUDED_ITEM_IDS whose    *)
(* try block around getInventoryValues also covers the loop over the rows. *)
(* negatives keeps the item_id of each pushed row, which is all the alerts *)
(* use of it besides the description.                                      *)
(*                                                                         *)
(* world is what the Heartland API holds for the ticket: how the call for  *)
(* the ticket lines ends and the lines it returns, and whether a GroupMe   *)
(* client was handed to the strategy.  Each call for inventory values is   *)
(* answered when it is made.  A call ends in one of four ways:             *)
(*   "ok"        resolved with a body that has a results list              *)
(*   "noresults" resolved with a body without results (for example {})     *)
(*   "null"      resolved with the body null                               *)
(*   "reject"    rejected (transport error, non-2xx status, bad JSON)      *)
(* inv.seen is the history of the inventory calls: the item asked for, how *)
(* the call ended, and whether a row of the answer showed a negative       *)
(* effective quantity at the ticket's location.  inv.sent lists the items  *)
(* sendMessage was called for.                                             *)

EXCLUDED_ITEM_IDS == {101996, 106379, 102112}

TicketLine(type, item_id) == [type |-> type, item_id |-> item_id]

InventoryValueRow(item_id, location_id, qty_available, qty_on_hand) ==
    [item_id |-> item_id, location_id |-> location_id,
     qty_available |-> qty_available, qty_on_hand |-> qty_on_hand]

InventorySupports(t) ==
    IF TypeOf(t.id) # "number" THEN FALSE
    ELSE IF TypeOf(t.source_location_id) # "number" THEN FALSE
    ELSE IF t.type # Str("Ticket") /\ t.type # Str("Return") THEN FALSE
    ELSE TRUE

Range(seq) == {seq[i] : i \in 1..Len(seq)}

\* Array.from(new Set(array)): the distinct elements in order of first occurrence
ArrayFromSet(seq) ==
    LET F[i \in 0..Len(seq)] ==
          IF i = 0 THEN <<>>
          ELSE IF seq[i] \in Range(F[i - 1]) THEN F[i - 1]
               ELSE Append(F[i - 1], seq[i])
    IN F[Len(seq)]

\* the filter of the itemIds computation, without the exclusion test
IsCheckedLineNoExclusion(line) ==
    /\ line.type = "ItemLine"
    /\ TypeOf(line.item_id) = "number"

\* the filter of the itemIds computation
IsCheckedLine(line) ==
    /\ line.type = "ItemLine"
    /\ TypeOf(line.item_id) = "number"
    /\ line.item_id.n \notin EXCLUDED_ITEM_IDS

MapItemId(lines) == [i \in 1..Len(lines) |-> lines[i].item_id.n]

ItemIdsOf(results) == ArrayFromSet(MapItemId(SelectSeq(results, IsCheckedLine)))

\* rows of every location taken into account
RowRelevantAnywhere(row, locationId) == TRUE

\* a row with a numeric location_id other than the ticket's is skipped
RowRelevant(row, locationId) ==
    ~(TypeOf(row.location_id) = "number" /\ row.location_id.n # locationId)

QtyForCheck(row) ==
    IF TypeOf(row.qty_available) = "number" THEN row.qty_available.n
    ELSE IF TypeOf(row.qty_on_hand) = "number" THEN row.qty_on_hand.n
         ELSE 0

\* the row is pushed to negatives
RowIsNegative(row, locationId) ==
    RowRelevant(row, locationId) /\ QtyForCheck(row) < 0

\* what the history records of a row: it has no location or the ticket's
\* location, and its effective quantity (qty_available if a number, else
\* qty_on_hand if a number, else 0) is below zero
EffectiveQuantity(row) ==
    CASE row.qty_available.t = "number" -> row.qty_available.n
      [] row.qty_on_hand.t = "number" -> row.qty_on_hand.n
      [] OTHER -> 0

ShowsNegativeAt(row, locationId) ==
    /\ row.location_id = Undefined \/ row.location_id = Num(locationId)
    /\ EffectiveQuantity(row) < 0

InvSettled(result) == [inv EXCEPT !.pc = "settled", !.result = result]

LocationId == tx.source_location_id.n

\* 1. linesResponse = await getTicketLines(ticketId), the itemIds
\* computation and the `itemIds.length === 0` return.  The read of
\* linesResponse.results is outside the try block.
InvGetTicketLines ==
    /\ inv.pc = "start"
    /\ CASE world.linesMode = "reject" -> inv' = InvSettled("false")
         [] world.linesMode = "null" -> inv' = InvSettled("threw")
         [] OTHER ->
              LET results == IF world.linesMode = "noresults" THEN <<>>
                             ELSE world.lines
                  itemIds == ItemIdsOf(results)
              IN IF Len(itemIds) = 0 THEN inv' = InvSettled("true")
                 ELSE inv' = [inv EXCEPT !.pc = "fetch", !.itemIds = itemIds,
                                         !.k = 1]
    /\ UNCHANGED <<evalVars, world, runVars>>

MaxRows == 2

InventoryModes == {"ok", "noresults", "null", "reject"}

Seen(item, mode) == [item |-> item, mode |-> mode, negative |-> FALSE]

\* a catch block that would swallow only the TypeError, not a rejection
InventoryCallCaughtOnlyTypeError(mode) == mode = "null"

\* the outcomes of getInventoryValues that end in the catch block of the
\* per-item loop, which returns false
InventoryCallCaught(mode) == mode \in {"reject", "null"}

\* a catch block that would alert for the negatives found so far
AlertsInCatchForNegatives(negatives) == negatives

\* the messages sent by the catch block of the per-item loop: none
AlertsInCatch(negatives) == << >>

\* 2. invResponse = await getInventoryValues(itemId) for the next item.  The
\* call and the loop over its rows are inside one try block: a rejection,
\* and the TypeError of reading .results of null, both return false.
InvGetInventoryValues ==
    /\ inv.pc = "fetch"
    /\ inv.k <= Len(inv.itemIds)
    /\ \E mode \in InventoryModes, n \in 0..MaxRows :
         /\ mode # "ok" => n = 0
         /\ LET seen == Append(inv.seen, Seen(inv.itemIds[inv.k], mode)) IN
              CASE InventoryCallCaught(mode) ->
                     inv' = [InvSettled("false") EXCEPT
                               !.seen = seen,
                               !.sent = AlertsInCatch(inv.negatives)]
                [] n = 0 ->
                     inv' = [inv EXCEPT !.seen = seen, !.k = inv.k + 1]
                [] OTHER ->
                     inv' = [inv EXCEPT !.seen = seen, !.pc = "rows",
                                        !.rowsLeft = n]
    /\ UNCHANGED <<evalVars, world, runVars>>

LocationValues == {Undefined, Num(1), Num(2)}

QuantityPairs ==
    {<<Undefined, Undefined>>, <<Num(-1), Num(1)>>, <<Num(0), Num(-1)>>,
     <<Undefined, Num(-1)>>, <<Undefined, Num(1)>>}

RowsOf(item) ==
    {InventoryValueRow(item, l, q[1], q[2]) :
        l \in LocationValues, q \in QuantityPairs}

\* one turn of `for (const row of invResponse.results ?? [])`
InvRow ==
    /\ inv.pc = "rows"
    /\ inv.rowsLeft > 0
    /\ \E row \in RowsOf(inv.itemIds[inv.k]) :
         LET last == Len(inv.seen)
             negatives == IF RowIsNegative(row, LocationId)
                          THEN Append(inv.negatives, row.item_id)
                          ELSE inv.negatives
             seen == [inv.seen EXCEPT ![last].negative =
                         @ \/ ShowsNegativeAt(row, LocationId)]
         IN inv' = [inv EXCEPT
                      !.negatives = negatives,
                      !.seen = seen,
                      !.rowsLeft = inv.rowsLeft - 1,
                      !.pc = IF inv.rowsLeft = 1 THEN "fetch" ELSE "rows",
                      !.k = IF inv.rowsLeft = 1 THEN inv.k + 1 ELSE inv.k]
    /\ UNCHANGED <<evalVars, world, runVars>>

\* `if (negatives.length > 0)`: one sendMessage per entry of negatives, all
\* started by the map before Promise.all is awaited; a rejection is caught.
InvNegativeDetected ==
    /\ inv.pc = "fetch"
    /\ inv.k > Len(inv.itemIds)
    /\ Len(inv.negatives) > 0
    /\ IF ~world.groupMe THEN inv' = InvSettled("false")
       ELSE \E failed \in BOOLEAN :
              inv' = [InvSettled("false") EXCEPT !.sent = inv.negatives,
                                                 !.sendFailed = failed]
    /\ UNCHANGED <<evalVars, world, runVars>>

\* the final `return true`
InvAllNonNegative ==
    /\ inv.pc = "fetch"
    /\ inv.k > Len(inv.itemIds)
    /\ Len(inv.negatives) = 0
    /\ inv' = InvSettled("true")
    /\ UNCHANGED <<evalVars, world, runVars>>

MaxLines == 2

LineKinds ==
    {TicketLine("ItemLine", v) : v \in {Undefined, Num(1), Num(2), Num(101996)}}
      \cup {TicketLine("TaxLine", Num(1))}

Worlds ==
    {[linesMode |-> "ok", lines |-> l, groupMe |-> g] :
        l \in SeqUpTo(LineKinds, MaxLines), g \in BOOLEAN}
      \cup {[linesMode |-> m, lines |-> <<>>, groupMe |-> g] :
             m \in {"noresults", "null", "reject"}, g \in BOOLEAN}

Ticket(type, source_location_id) ==
    [id |-> Num(1001), type |-> type, total |-> Undefined,
     source_location_id |-> source_location_id,
     completed |-> Undefined, status |-> Undefined, balance |-> Undefined,
     completed_at |-> Undefined, local_completed_at |-> Undefined]

TxInventorySet ==
    {Ticket(ty, l) : ty \in {Str("Ticket"), Str("Return"), Str("sale")},
                     l \in {Num(1), Undefined}}

InitInventory ==
    /\ tx \in {t \in TxInventorySet : InventorySupports(t)}
    /\ strategies = <<>>
    /\ pc = "idle"
    /\ idx = 1
    /\ checks = <<>>
    /\ overall = TRUE
    /\ anyExecuted = FALSE
    /\ ret = NoResult
    /\ calls = NoCalls
    /\ world \in Worlds
    /\ inv = [InvIdle EXCEPT !.pc = "start"]
    /\ RunsIdle

NextInventory ==
    \/ InvGetTicketLines
    \/ InvGetInventoryValues
    \/ InvRow
    \/ InvNegativeDetected
    \/ InvAllNonNegative

SpecInventory == InitInventory /\ [][NextInventory]_vars

---------------------------------------------------------------------------
(* PriceAdjustedItemStrategy.  world.lines holds the ticket lines with the *)
(* fields the strategy reads; prices are whole numbers.  A                 *)
(* price_adjustments value is an array of entries or not an array; an      *)
(* entry is an object with a delta_price, or null.                         *)

NotArray == [isArray |-> FALSE, items |-> <<>>]
Array(items) == [isArray |-> TRUE, items |-> items]

Entry(delta_price) == [isNull |-> FALSE, delta_price |-> delta_price]
NullEntry == [isNull |-> TRUE, delta_price |-> Undefined]

PricedLine(type, adjusted_unit_price, original_unit_price, price_adjustments) ==
    [type |-> type, adjusted_unit_price |-> adjusted_unit_price,
     original_unit_price |-> original_unit_price,
     price_adjustments |-> price_adjustments]

PriceAdjustedSupports(t) ==
    IF TypeOf(t.id) # "number" THEN FALSE
    ELSE IF t.type # Str("Ticket") THEN FALSE
    ELSE TRUE

IsItemLine(line) == line.type = "ItemLine"

HasAdjustedUnitPrice(line) ==
    line.adjusted_unit_price # Null /\ line.adjusted_unit_price # Undefined

HasAdjustments(line) ==
    line.price_adjustments.isArray /\ Len(line.price_adjustments.items) > 0

IsAdjusted(line) == ~(~HasAdjustedUnitPrice(line) /\ ~HasAdjustments(line))

\* itemLines.map(...).filter(Boolean)
AdjustedItems(itemLines) == SelectSeq(itemLines, IsAdjusted)

IsNumericDelta(entry) == TypeOf(entry.delta_price) = "number"

\* deltas.reduce((sum, value) => sum + value, 0)
RECURSIVE SumDeltas(_)
SumDeltas(deltas) ==
    IF deltas = <<>> THEN 0
    ELSE SumDeltas(SubSeq(deltas, 1, Len(deltas) - 1))
         + deltas[Len(deltas)].delta_price.n

\* reading entry.delta_price of a null entry throws a TypeError
GetDeltaPriceThrows(item) ==
    /\ item.price_adjustments.isArray
    /\ \E i \in 1..Len(item.price_adjustments.items) :
         item.price_adjustments.items[i].isNull

\* getDeltaPrice with the two sources of the delta tried in the other order
GetDeltaPriceUnitPricesFirst(item) ==
    IF /\ TypeOf(item.original_unit_price) = "number"
       /\ TypeOf(item.adjusted_unit_price) = "number"
    THEN Num(item.adjusted_unit_price.n - item.original_unit_price.n)
    ELSE LET deltas == SelectSeq(item.price_adjustments.items, IsNumericDelta)
         IN IF item.price_adjustments.isArray /\ Len(deltas) > 0
            THEN Num(SumDeltas(deltas))
            ELSE Undefined

GetDeltaPrice(item) ==
    LET deltas == SelectSeq(item.price_adjustments.items, IsNumericDelta)
    IN IF item.price_adjustments.isArray /\ Len(deltas) > 0
       THEN Num(SumDeltas(deltas))
       ELSE IF /\ TypeOf(item.original_unit_price) = "number"
               /\ TypeOf(item.adjusted_unit_price) = "number"
            THEN Num(item.adjusted_unit_price.n - item.original_unit_price.n)
            ELSE Undefined

\* `${value}` of a finite number, else 'unknown'
FormatPrice(value) ==
    IF TypeOf(value) = "number" THEN ToString(value.n) ELSE "unknown"

\* the parts of the alert text that depend on the item
PriceMessage(item) ==
    [delta |-> FormatPrice(GetDeltaPrice(item)),
     original |-> FormatPrice(item.original_unit_price),
     adjusted |-> FormatPrice(item.adjusted_unit_price)]

\* adjustedItems.map(...): sendMessage is called item by item until the
\* callback throws
RECURSIVE MessagesSent(_)
MessagesSent(items) ==
    IF items = <<>> THEN <<>>
    ELSE IF GetDeltaPriceThrows(Head(items)) THEN <<>>
         ELSE <<PriceMessage(Head(items))>> \o MessagesSent(Tail(items))

MapThrows(items) == \E i \in 1..Len(items) : GetDeltaPriceThrows(items[i])

PaSettled(result) == [pa EXCEPT !.pc = "settled", !.result = result]

\* a strategy without the try/catch around the alerts
AfterAlertsUncaught(failed) == IF failed THEN "threw" ELSE "false"

\* what checkTx returns after the try/catch around the alerts
AfterAlerts(failed) == "false"

\* 1. linesResponse = await getTicketLines(ticketId), then everything up to
\* the alerts: the item lines, the adjusted items, the early returns.
PaGetTicketLines ==
    /\ pa.pc = "start"
    /\ CASE world.linesMode = "reject" -> pa' = PaSettled("false")
         [] world.linesMode = "null" -> pa' = PaSettled("threw")
         [] OTHER ->
              LET results == IF world.linesMode = "noresults" THEN <<>>
                             ELSE world.lines
                  itemLines == SelectSeq(results, IsItemLine)
                  adjustedItems == AdjustedItems(itemLines)
              IN IF Len(itemLines) = 0 THEN pa' = PaSettled("true")
                 ELSE IF Len(adjustedItems) > 0
                      THEN IF ~world.groupMe
                           THEN pa' = [PaSettled("false") EXCEPT
                                         !.adjustedItems = adjustedItems]
                           ELSE pa' = [pa EXCEPT !.pc = "alerting",
                                         !.adjustedItems = adjustedItems]
                      ELSE pa' = PaSettled("true")
    /\ UNCHANGED <<evalVars, world, inv, hd, boot, itemReq>>

\* 2. await Promise.all(adjustedItems.map(... sendMessage(text))) inside
\* try/catch, then return false.
PaAlert ==
    /\ pa.pc = "alerting"
    /\ \E rejected \in BOOLEAN :
         LET sent == MessagesSent(pa.adjustedItems)
             failed == MapThrows(pa.adjustedItems) \/ (rejected /\ sent # <<>>)
         IN pa' = [PaSettled(AfterAlerts(failed)) EXCEPT
                     !.sent = sent, !.sendFailed = failed]
    /\ UNCHANGED <<evalVars, world, inv, hd, boot, itemReq>>

PricedLines ==
    { PricedLine("TaxLine", Num(15), Num(75), NotArray),
      PricedLine("ItemLine", Undefined, Num(75), NotArray),
      PricedLine("ItemLine", Null, Num(75), Array(<<>>)),
      PricedLine("ItemLine", Num(15), Num(75), NotArray),
      PricedLine("ItemLine", Undefined, Undefined, Array(<<Entry(Num(-60))>>)),
      PricedLine("ItemLine", Num(15), Undefined, NotArray),
      PricedLine("ItemLine", Num(15), Num(75), Array(<<Entry(Str("x"))>>)),
      PricedLine("ItemLine", Num(15), Num(75),
                 Array(<<Entry(Num(-60)), Entry(Num(5))>>)),
      PricedLine("ItemLine", Undefined, Num(75), Array(<<NullEntry>>)) }

PricedWorlds ==
    {[linesMode |-> "ok", lines |-> l, groupMe |-> g] :
        l \in SeqUpTo(PricedLines, MaxLines), g \in BOOLEAN}
    \cup
    {[linesMode |-> m, lines |-> <<>>, groupMe |-> g] :
        m \in {"noresults", "null", "reject"}, g \in BOOLEAN}

InitPriceAdjusted ==
    /\ tx \in {t \in TxInventorySet : PriceAdjustedSupports(t)}
    /\ strategies = <<>>
    /\ pc = "idle"
    /\ idx = 1
    /\ checks = <<>>
    /\ overall = TRUE
    /\ anyExecuted = FALSE
    /\ ret = NoResult
    /\ calls = NoCalls
    /\ world \in PricedWorlds
    /\ inv = InvIdle
    /\ pa = [PaIdle EXCEPT !.pc = "start"]
    /\ hd = HdIdle
    /\ boot = BootIdle
    /\ itemReq = ItemIdle

NextPriceAdjusted == PaGetTicketLines \/ PaAlert

SpecPriceAdjusted == InitPriceAdjusted /\ [][NextPriceAdjusted]_vars

---------------------------------------------------------------------------
(* HighDiscountTicketStrategy.  The ticket carries original_subtotal and   *)
(* total_discounts; amounts are counted in cents.                          *)

THRESHOLD_PERCENT == 5

DiscountTicket(type, original_subtotal, total_discounts) ==
    [id |-> Num(1001), type |-> type, total |-> Undefined,
     source_location_id |-> Undefined,
     completed |-> Undefined, status |-> Undefined, balance |-> Undefined,
     completed_at |-> Undefined, local_completed_at |-> Undefined,
     original_subtotal |-> original_subtotal,
     total_discounts |-> total_discounts]

HighDiscountSupports(t) ==
    IF TypeOf(t.id) # "number" THEN FALSE
    ELSE IF t.type # Str("Ticket") THEN FALSE
    ELSE TRUE

\* typeof tx.total_discounts === 'number' ? tx.total_discounts : undefined
NumberOrUndefined(v) == IF TypeOf(v) = "number" THEN v ELSE Undefined

\* the early return for missing or invalid discount data
DiscountDataInvalid(totalDiscounts, originalSubtotal) ==
    \/ TypeOf(totalDiscounts) # "number"
    \/ TypeOf(originalSubtotal) # "number"
    \/ originalSubtotal.n <= 0

\* The amounts of the model, as <<total_discounts, original_subtotal>> in
\* cents, for which the double (total_discounts / original_subtotal) * 100
\* is 5.000000000000001 although the quotient of the amounts is exactly
\* 5/100: 0.07 of 1.4 and 0.14 of 2.8.  For every other pair of amounts of
\* the model the double compares with 5 as the exact quotient does.
RoundsAboveThreshold == {<<7, 140>>, <<14, 280>>}

\* discountPercent > thresholdPercent, with discountPercent the double
\* (totalDiscounts / originalSubtotal) * 100
ExceedsThreshold(totalDiscounts, originalSubtotal) ==
    \/ totalDiscounts.n * 100 > THRESHOLD_PERCENT * originalSubtotal.n
    \/ <<totalDiscounts.n, originalSubtotal.n>> \in RoundsAboveThreshold

\* a strategy that alerts whenever it has a client
AlertsWheneverClient(exceeds, client) == client

\* the message is sent inside `if (discountPercent > thresholdPercent)`,
\* in the else branch of `if (!this.groupMeClient)`
Alerts(exceeds, client) == exceeds /\ client

HdSettled(result) == [hd EXCEPT !.pc = "settled", !.result = result]

\* 1. checkTx up to the await of sendMessage
HdEvaluate ==
    /\ hd.pc = "start"
    /\ LET totalDiscounts == NumberOrUndefined(tx.total_discounts)
           originalSubtotal == NumberOrUndefined(tx.original_subtotal)
       IN IF DiscountDataInvalid(totalDiscounts, originalSubtotal)
          THEN hd' = HdSettled("true")
          ELSE LET exceeds == ExceedsThreshold(totalDiscounts, originalSubtotal)
               IN IF Alerts(exceeds, world.groupMe)
                  THEN hd' = [hd EXCEPT !.pc = "alerting",
                                !.result = IF exceeds THEN "false" ELSE "true"]
                  ELSE hd' = HdSettled(IF exceeds THEN "false" ELSE "true")
    /\ UNCHANGED <<evalVars, world, inv, pa, boot, itemReq>>

\* 2. await this.groupMeClient.sendMessage(message) inside try/catch
HdAlert ==
    /\ hd.pc = "alerting"
    /\ \E rejected \in BOOLEAN :
         hd' = [hd EXCEPT !.pc = "settled", !.sent = hd.sent + 1,
                          !.sendFailed = rejected]
    /\ UNCHANGED <<evalVars, world, inv, pa, boot, itemReq>>

AmountValues ==
    {Undefined, Str("10"), Num(-1000), Num(0), Num(7), Num(14), Num(140),
     Num(280), Num(500), Num(1000), Num(1001), Num(2000), Num(5000),
     Num(20000)}

DiscountTickets ==
    {DiscountTicket(ty, s, d) : ty \in {Str("Ticket"), Str("Return")},
                                s \in AmountValues, d \in AmountValues}

InitHighDiscount ==
    /\ tx \in {t \in DiscountTickets : HighDiscountSupports(t)}
    /\ strategies = <<>>
    /\ pc = "idle"
    /\ idx = 1
    /\ checks = <<>>
    /\ overall = TRUE
    /\ anyExecuted = FALSE
    /\ ret = NoResult
    /\ calls = NoCalls
    /\ world \in {[NoWorld EXCEPT !.groupMe = g] : g \in BOOLEAN}
    /\ inv = InvIdle
    /\ pa = PaIdle
    /\ hd = [HdIdle EXCEPT !.pc = "start"]
    /\ boot = BootIdle
    /\ itemReq = ItemIdle

NextHighDiscount == HdEvaluate \/ HdAlert

SpecHighDiscount == InitHighDiscount /\ [][NextHighDiscount]_vars

---------------------------------------------------------------------------
(* One checkTx call of one of the three alerting strategies.               *)

InitAlerting == InitInventory \/ InitPriceAdjusted \/ InitHighDiscount

NextAlerting == NextInventory \/ NextPriceAdjusted \/ NextHighDiscount

SpecAlerting == InitAlerting /\ [][NextAlerting]_vars

---------------------------------------------------------------------------
(* index.ts: the module state, the build of the default strategy list at   *)
(* module load, and the handler.  A strategy list is the sequence of the   *)
(* names of its strategies; cachedStrategies = << >> stands for null.      *)
(* A secret is what secretsClient.send settles with: a rejection, or a     *)
(* response whose SecretString is undefined or a string.                   *)

BaseStrategyNames == <<"type-and-status", "balance-based", "completed-timestamp">>

InventoryStrategyName == "inventory-non-negative"

\* the completion of an expression that threw instead of yielding a value
Thrown == [t |-> "throw", n |-> 0, s |-> "", b |-> FALSE]

\* JSON.parse(SecretString).token for the secret strings of the model:
\* Thrown when JSON.parse throws or the parsed value is null
ParsedToken(SecretString) ==
    CASE SecretString = "not json" -> Thrown
      [] SecretString = "null" -> Thrown
      [] SecretString = "{}" -> Undefined
      [] SecretString = "{\"token\":\"\"}" -> Str("")
      [] SecretString = "{\"token\":\"t\"}" -> Str("t")

\* getHeartlandApiTokenFromSecret after the secret call settled: the token,
\* or Thrown
TokenOf(secret) ==
    IF secret.rejects THEN Thrown
    ELSE IF ~Truthy(secret.SecretString) THEN Thrown
    ELSE LET token == ParsedToken(secret.SecretString.s)
         IN IF token = Thrown THEN Thrown
            ELSE IF ~Truthy(token) THEN Thrown
            ELSE token

\* if (!baseUrl || !secretArn)
MissingConfig(baseUrl, secretArn) == ~Truthy(baseUrl) \/ ~Truthy(secretArn)

\* a build that gives up on the inventory strategy without a bot id
TryAddInventoryNeedsBotId(strategyNames, token, botId) ==
    IF token = Thrown \/ ~Truthy(botId) THEN strategyNames
    ELSE Append(strategyNames, InventoryStrategyName)

\* the try/catch of buildDefaultCompletionStrategies: the strategy is pushed
\* unless obtaining the token threw
TryAddInventory(strategyNames, token, botId) ==
    IF token = Thrown THEN strategyNames
    ELSE Append(strategyNames, InventoryStrategyName)

MaxBuilds == 2

\* a buildDefaultCompletionStrategies that never takes the cached list
ReturnsCachedNever(cachedStrategies) == FALSE

\* if (cachedStrategies) return cachedStrategies
ReturnsCached(cachedStrategies) == cachedStrategies # << >>

\* a build that caches its list only when the token was obtained
CachedOnlyWithToken(strategyNames, token) ==
    IF token = Thrown THEN << >> ELSE strategyNames

\* cachedStrategies = strategies after the try/catch, whatever happened in it
CachedAfterTry(strategyNames, token) == strategyNames

\* a call of buildDefaultCompletionStrategies returns the array `id`; the
\* first array returned is the one strategiesPromise resolves with
BuildReturns(b, id, strategyNames) ==
    LET list == [id |-> id, names |-> strategyNames]
    IN [b EXCEPT !.pc = "built",
                 !.returned = list,
                 !.first = IF b.first = NoList THEN list ELSE b.first]

\* a call that made a new array of strategies, assigns cachedStrategies and
\* returns the array
BuildConstructs(b, strategyNames, cached) ==
    LET id == b.constructed + 1
    IN BuildReturns([b EXCEPT !.constructed = id,
                              !.cachedStrategies = cached,
                              !.listId = IF cached = << >> THEN 0 ELSE id],
                    id, strategyNames)

\* buildDefaultCompletionStrategies(), up to its return or to the await of
\* the secret call: at module load (strategiesPromise), and any later call
\* made after the earlier one returned
BuildDefaultCompletionStrategies ==
    /\ boot.pc \in {"load", "built"}
    /\ boot.builds < MaxBuilds
    /\ LET b == [boot EXCEPT !.builds = boot.builds + 1,
                             !.returned = NoList]
       IN IF ReturnsCached(boot.cachedStrategies)
          THEN boot' = BuildReturns(b, boot.listId, boot.cachedStrategies)
          ELSE IF MissingConfig(boot.env.baseUrl, boot.env.secretArn)
          THEN boot' = BuildConstructs(b, BaseStrategyNames, BaseStrategyNames)
          ELSE IF Truthy(boot.cachedHeartlandToken)
          THEN LET list == TryAddInventory(BaseStrategyNames,
                                           boot.cachedHeartlandToken,
                                           boot.env.botId)
               IN boot' = BuildConstructs(
                            b, list,
                            CachedAfterTry(list, boot.cachedHeartlandToken))
          ELSE boot' = [b EXCEPT !.pc = "awaitingSecret",
                                 !.secretCalls = boot.secretCalls + 1]
    /\ UNCHANGED <<evalVars, invVars, pa, hd, itemReq>>

SecretStrings ==
    {Undefined, Str(""), Str("not json"), Str("null"), Str("{}"),
     Str("{\"token\":\"\"}"), Str("{\"token\":\"t\"}")}

Secrets ==
    {Secret(TRUE, Undefined)} \cup {Secret(FALSE, s) : s \in SecretStrings}

\* secretsClient.send settles; the rest of getHeartlandApiTokenFromSecret and
\* of buildDefaultCompletionStrategies runs (boot.secret keeps the first
\* answer of the secret store)
SecretSettles ==
    /\ boot.pc = "awaitingSecret"
    /\ \E secret \in Secrets :
         LET token == TokenOf(secret)
             list == TryAddInventory(BaseStrategyNames, token, boot.env.botId)
             b == [boot EXCEPT
                     !.secret = IF boot.secret = NoSecret THEN secret
                                ELSE boot.secret,
                     !.cachedHeartlandToken =
                         IF token = Thrown THEN boot.cachedHeartlandToken
                         ELSE token,
                     !.groupMeClient =
                         token # Thrown /\ Truthy(boot.env.botId)]
         IN boot' = BuildConstructs(b, list, CachedAfterTry(list, token))
    /\ UNCHANGED <<evalVars, invVars, pa, hd, itemReq>>

MaxInvocations == 2

\* the strategy objects of a built list, for one request: the checkTx of the
\* inventory strategy settles as its API answers for that ticket
StrategyObjects(strategyNames, t, inventoryOutcome) ==
    [i \in 1..Len(strategyNames) |->
        IF strategyNames[i] = InventoryStrategyName
        THEN [name |-> InventoryStrategyName,
              sup |-> BoolResult(InventorySupports(t)),
              out |-> inventoryOutcome]
        ELSE Builtin(strategyNames[i])]

\* a transaction object with the fields classifyTransaction reads
Classified(type, total) == [Ticket(type, Undefined) EXCEPT !.total = total]

TypeValues == {Undefined, Str("Ticket"), Str("Return"), Str("sale")}

TotalValues == {Undefined, Num(5), Num(-5), Num(0), Str("5")}

HandlerTransactions ==
    {TxOnlyCompleted, TxBalanceFive, Ticket(Str("Ticket"), Num(1))}
    \cup {Classified(ty, to) : ty \in TypeValues, to \in TotalValues}

\* event.body: absent, the empty string, text that is not JSON, or the JSON
\* text of null, of a number, of a string, of an array or of an object
Bodies ==
    {"none", "empty", "invalid", "null", "number", "string", "array",
     "object"}

\* a handler that takes every present body for a transaction
HasTransactionWheneverPresent(body) == body \notin {"none", "empty"}

\* `!event.body` is false and JSON.parse(event.body) does not throw
HasTransaction(body) == body \notin {"none", "empty", "invalid"}

\* what reading a property of a number, a string or an array yields for
\* every property the handler and the strategies read: undefined
NoProperties ==
    [id |-> Undefined, type |-> Undefined, total |-> Undefined,
     source_location_id |-> Undefined,
     completed |-> Undefined, status |-> Undefined, balance |-> Undefined,
     completed_at |-> Undefined, local_completed_at |-> Undefined]

\* JSON.parse(event.body) as the code reads it: null, or the properties of
\* the value
ParsedBody(body, t) ==
    CASE body = "null" -> Null
      [] body = "object" -> t
      [] OTHER -> NoProperties

\* a classifyTransaction that looks at the total before the type
ClassifyTransactionTotalFirst(t) ==
    IF t = Null THEN "throw"
    ELSE IF TypeOf(t.total) = "number" /\ t.total.n > 0 THEN "sale"
    ELSE IF TypeOf(t.total) = "number" /\ t.total.n < 0 THEN "return"
    ELSE IF t.type = Str("Ticket") THEN "sale"
    ELSE IF t.type = Str("Return") THEN "return"
    ELSE "other"

\* classifyTransaction(tx); reading tx.type of null throws a TypeError
ClassifyTransaction(t) ==
    IF t = Null THEN "throw"
    ELSE IF t.type = Str("Ticket") THEN "sale"
    ELSE IF t.type = Str("Return") THEN "return"
    ELSE IF TypeOf(t.total) = "number" /\ t.total.n > 0 THEN "sale"
    ELSE IF TypeOf(t.total) = "number" /\ t.total.n < 0 THEN "return"
    ELSE "other"

\* createResponse({status: 'ok', transactionKind: 'other', check: false,
\* checks: []})
EarlyResponse ==
    [statusCode |-> 200, status |-> "ok", transactionKind |-> "other",
     check |-> FALSE, checks |-> << >>]

\* the handler threw: the invocation fails without a response
HandlerThrew == [NoResponse EXCEPT !.status = "threw"]

\* handler, from its invocation to its early return, to its throw in
\* classifyTransaction, or past `await strategiesPromise` to the call of
\* evaluateChecks
HandlerInvoke ==
    /\ boot.builds > 0
    /\ ~boot.inFlight
    /\ boot.invocations < MaxInvocations
    /\ \E body \in Bodies :
       \E t \in (IF body = "object" THEN HandlerTransactions
                  ELSE {NoProperties}),
          o \in (IF body = "object" THEN {"true", "false", "reject"}
                  ELSE {"true"}) :
         LET parsed == ParsedBody(body, t)
             b == [boot EXCEPT !.invocations = boot.invocations + 1,
                               !.body = body,
                               !.kind = "",
                               !.response = NoResponse]
         IN IF ~HasTransaction(body)
            THEN /\ boot' = [b EXCEPT !.response = EarlyResponse]
                 /\ UNCHANGED <<tx, strategies, pc, idx, checks, overall,
                                anyExecuted, ret>>
            ELSE IF ClassifyTransaction(parsed) = "throw"
            THEN /\ boot' = [b EXCEPT !.response = HandlerThrew]
                 /\ UNCHANGED <<tx, strategies, pc, idx, checks, overall,
                                anyExecuted, ret>>
            ELSE /\ boot.first # NoList
                 /\ boot' = [b EXCEPT !.inFlight = TRUE,
                                      !.kind = ClassifyTransaction(parsed)]
                 /\ tx' = parsed
                 /\ strategies' = StrategyObjects(boot.first.names, parsed, o)
                 /\ pc' = "loop"
                 /\ idx' = 1
                 /\ checks' = << >>
                 /\ overall' = TRUE
                 /\ anyExecuted' = FALSE
                 /\ ret' = NoResult
    /\ calls' = NoCalls
    /\ UNCHANGED <<invVars, pa, hd, itemReq>>

\* handler after evaluateChecks settled: createResponse(responseBody), or
\* the rejection of evaluateChecks leaving the handler
HandlerRespond ==
    /\ boot.inFlight
    /\ pc \in {"done", "rejected"}
    /\ boot' = [boot EXCEPT
                  !.inFlight = FALSE,
                  !.response =
                      IF pc = "done"
                      THEN [statusCode |-> 200, status |-> "ok",
                            transactionKind |-> boot.kind,
                            check |-> ret.check, checks |-> ret.checks]
                      ELSE HandlerThrew]
    /\ pc' = "idle"
    /\ UNCHANGED <<tx, strategies, idx, checks, overall, anyExecuted, ret,
                   calls, invVars, pa, hd, itemReq>>

EnvValues == {Undefined, Str(""), Str("set")}

Envs ==
    {[baseUrl |-> b, secretArn |-> a, botId |-> g] :
        b \in EnvValues, a \in EnvValues, g \in EnvValues}

InitHandler ==
    /\ tx = Undefined
    /\ strategies = << >>
    /\ pc = "idle"
    /\ idx = 1
    /\ checks = << >>
    /\ overall = TRUE
    /\ anyExecuted = FALSE
    /\ ret = NoResult
    /\ calls = NoCalls
    /\ world = NoWorld
    /\ inv = InvIdle
    /\ pa = PaIdle
    /\ hd = HdIdle
    /\ boot \in {[BootIdle EXCEPT !.pc = "load", !.env = e] : e \in Envs}
    /\ itemReq = ItemIdle

NextHandler ==
    \/ BuildDefaultCompletionStrategies
    \/ SecretSettles
    \/ HandlerInvoke
    \/ CallSupports
    \/ SettleCheckTx
    \/ Return
    \/ HandlerRespond

SpecHandler == InitHandler /\ [][NextHandler]_vars

---------------------------------------------------------------------------
(* handlers/item/index.ts: the item_created handler, one request.  The     *)
(* body is one of: none (absent or empty), invalid (not JSON), notObject   *)
(* (JSON that is no record), noId (a record without a numeric id), ok.     *)
(* Each awaited call settles in a step of its own, with every outcome the  *)
(* call can have.                                                          *)

OkResponse == [statusCode |-> 200, status |-> "ok"]

ItemReturned(response) ==
    [itemReq EXCEPT !.pc = "returned", !.response = response]

\* parseItemCreatedBody(body).ok
ParseOk(body) == body = "ok"

\* subDepartment.trim().toLowerCase() for the sub-departments of the model
TrimToLowerCase(s) ==
    CASE s = " New In Box " -> "new in box"
      [] s = "Used" -> "used"
      [] OTHER -> s

IsNewInBoxSubDepartment(subDepartment) ==
    IF ~Truthy(subDepartment) THEN FALSE
    ELSE TrimToLowerCase(subDepartment.s) = "new in box"

\* bricklinkId.split('-')[0]?.trim() || undefined, for the ids of the model
ToyhouseLookupId(bricklinkId) ==
    IF ~Truthy(bricklinkId) THEN Undefined
    ELSE CASE bricklinkId.s = "75192-1" -> Str("75192")
           [] bricklinkId.s = "-1" -> Undefined

Reason(r) == [itemReq EXCEPT !.imageFailureReason = Str(r)]

\* where the handler goes once imageUrl is final: the failure message when
\* there is a reason and a bot id, else the update of the tags
StageAfterImage(it) ==
    IF Truthy(it.imageFailureReason) /\ Truthy(it.env.botId)
    THEN [it EXCEPT !.pc = "failureMessage"]
    ELSE [it EXCEPT !.pc = "tags"]

\* `if (imageUrl)`: the update of the image, or its skip
StageAfterLookups(it) ==
    IF Truthy(it.imageUrl) THEN [it EXCEPT !.pc = "imageUpdate"]
    ELSE StageAfterImage(it)

\* after the secrets were loaded: the BrickLink lookup when it applies
StageAfterSecrets(it) ==
    IF /\ ~Truthy(it.imageFailureReason)
       /\ ~IsNewInBoxSubDepartment(it.subDepartment)
       /\ Truthy(it.bricklinkId)
    THEN [it EXCEPT !.pc = "bricklink"]
    ELSE StageAfterLookups(it)

\* 1. the handler up to its first await or return
ItemStart ==
    /\ itemReq.pc = "start"
    /\ IF itemReq.body = "none" THEN itemReq' = ItemReturned(OkResponse)
       ELSE IF ~ParseOk(itemReq.body) THEN itemReq' = ItemReturned(OkResponse)
       ELSE IF ~Truthy(itemReq.env.baseUrl) \/ ~Truthy(itemReq.env.secretArn)
            THEN itemReq' = ItemReturned(OkResponse)
       ELSE LET useToyhouseImage ==
                    IsNewInBoxSubDepartment(itemReq.subDepartment)
                toyhouseLookupId == ToyhouseLookupId(itemReq.bricklinkId)
            IN IF ~Truthy(itemReq.bricklinkId)
               THEN itemReq' =
                      [Reason("missing bricklinkId") EXCEPT !.pc = "secrets"]
               ELSE IF useToyhouseImage
                    THEN IF ~Truthy(itemReq.env.s3Path)
                         THEN itemReq' =
                                [Reason("missing TOYHOUSE_MASTER_DATA_S3_PATH")
                                   EXCEPT !.pc = "secrets"]
                         ELSE IF ~Truthy(toyhouseLookupId)
                              THEN itemReq' =
                                     [Reason("missing Toyhouse lookup id")
                                        EXCEPT !.pc = "secrets"]
                              ELSE itemReq' = [itemReq EXCEPT !.pc = "toyhouse"]
                    ELSE itemReq' = [itemReq EXCEPT !.pc = "secrets"]
    /\ UNCHANGED <<evalVars, invVars, pa, hd, boot>>

LookupOutcomes == {"reject", "null", "noImage", "image"}

\* the result of a lookup inside its try/catch: the image found, or the
\* reason why there is none (a null BrickLink item throws inside the try)
AfterLookup(it, outcome, notFound, failed, nullThrows) ==
    CASE outcome = "image" -> [it EXCEPT !.imageUrl = Str("http://img")]
      [] outcome = "reject" -> [it EXCEPT !.imageFailureReason = Str(failed)]
      [] outcome = "null" /\ nullThrows ->
           [it EXCEPT !.imageFailureReason = Str(failed)]
      [] OTHER -> [it EXCEPT !.imageFailureReason = Str(notFound)]

\* 2. toyhouseClient.getItemByNumber settles (a missing item resolves null)
ItemToyhouseSettles ==
    /\ itemReq.pc = "toyhouse"
    /\ \E outcome \in LookupOutcomes :
         itemReq' = [AfterLookup(itemReq, outcome, "Toyhouse image not found",
                                 "Toyhouse lookup failed", FALSE)
                       EXCEPT !.pc = "secrets"]
    /\ UNCHANGED <<evalVars, invVars, pa, hd, boot>>

\* a sendImageFailureMessage without the try/catch around sendMessage
AfterSendMessageUncaught(rejected) == IF rejected THEN "threw" ELSE "settled"

\* sendImageFailureMessage: a rejected sendMessage is caught and logged
AfterSendMessage(rejected) == "settled"

SecretOutcomes == {"ok", "reject", "empty", "badJson", "missingFields"}

\* 3. getOperationalSecrets settles (at once from the cache, when filled);
\* on an error the catch block alerts and returns
ItemSecretsSettle ==
    /\ itemReq.pc = "secrets"
    /\ \E outcome \in SecretOutcomes :
         /\ itemReq.cachedSecrets => outcome = "ok"
         /\ IF outcome = "ok"
            THEN itemReq' =
                   StageAfterSecrets([itemReq EXCEPT !.cachedSecrets = TRUE])
            ELSE IF ~Truthy(itemReq.env.botId)
                 THEN itemReq' = ItemReturned(OkResponse)
                 ELSE itemReq' = [itemReq EXCEPT !.pc = "secretsMessage"]
    /\ UNCHANGED <<evalVars, invVars, pa, hd, boot>>

\* 4. the sendMessage of the secrets error settles; the handler returns
ItemSecretsMessageSettles ==
    /\ itemReq.pc = "secretsMessage"
    /\ \E rejected \in BOOLEAN :
         LET sent == [itemReq EXCEPT !.messages = @ + 1] IN
         IF AfterSendMessage(rejected) = "threw"
         THEN itemReq' = [sent EXCEPT !.pc = "threw"]
         ELSE itemReq' = [sent EXCEPT !.pc = "returned",
                                      !.response = OkResponse]
    /\ UNCHANGED <<evalVars, invVars, pa, hd, boot>>

\* 5. bricklinkClient.getItem settles
ItemBricklinkSettles ==
    /\ itemReq.pc = "bricklink"
    /\ \E outcome \in LookupOutcomes :
         itemReq' = StageAfterLookups(
                      AfterLookup(itemReq, outcome, "BrickLink image not found",
                                  "BrickLink lookup failed", TRUE))
    /\ UNCHANGED <<evalVars, invVars, pa, hd, boot>>

\* 6. heartlandClient.updateInventoryItemImage settles
ItemImageUpdateSettles ==
    /\ itemReq.pc = "imageUpdate"
    /\ \E rejected \in BOOLEAN :
         itemReq' = StageAfterImage(
                      IF rejected
                      THEN Reason("Heartland image update failed")
                      ELSE itemReq)
    /\ UNCHANGED <<evalVars, invVars, pa, hd, boot>>

\* 7. the sendMessage of the image failure settles
ItemFailureMessageSettles ==
    /\ itemReq.pc = "failureMessage"
    /\ \E rejected \in BOOLEAN :
         LET sent == [itemReq EXCEPT !.messages = @ + 1] IN
         IF AfterSendMessage(rejected) = "threw"
         THEN itemReq' = [sent EXCEPT !.pc = "threw"]
         ELSE itemReq' = [sent EXCEPT !.pc = "tags"]
    /\ UNCHANGED <<evalVars, invVars, pa, hd, boot>>

\* 8. heartlandClient.updateInventoryItem settles inside its try/catch; the
\* handler returns
ItemTagsSettle ==
    /\ itemReq.pc = "tags"
    /\ \E rejected \in BOOLEAN :
         itemReq' = [ItemReturned(OkResponse) EXCEPT
                       !.tagsUpdated = ~rejected]
    /\ UNCHANGED <<evalVars, invVars, pa, hd, boot>>

ItemEnvValues == {Undefined, Str("set")}

ItemEnvs ==
    {[baseUrl |-> b, secretArn |-> a, s3Path |-> p, botId |-> g] :
        b \in ItemEnvValues, a \in ItemEnvValues, p \in ItemEnvValues,
        g \in ItemEnvValues}

ItemRequests ==
    {[ItemIdle EXCEPT !.pc = "start", !.body = b, !.env = e,
                      !.cachedSecrets = c] :
        b \in {"none", "invalid", "notObject", "noId"}, e \in ItemEnvs,
        c \in BOOLEAN}
    \cup
    {[ItemIdle EXCEPT !.pc = "start", !.body = "ok", !.env = e,
                      !.cachedSecrets = c, !.bricklinkId = k,
                      !.subDepartment = d] :
        e \in ItemEnvs, c \in BOOLEAN,
        k \in {Undefined, Str("75192-1"), Str("-1")},
        d \in {Undefined, Str(" New In Box "), Str("Used")}}

InitItem ==
    /\ tx = Undefined
    /\ strategies = << >>
    /\ pc = "idle"
    /\ idx = 1
    /\ checks = << >>
    /\ overall = TRUE
    /\ anyExecuted = FALSE
    /\ ret = NoResult
    /\ calls = NoCalls
    /\ world = NoWorld
    /\ inv = InvIdle
    /\ pa = PaIdle
    /\ hd = HdIdle
    /\ boot = BootIdle
    /\ itemReq \in ItemRequests

NextItem ==
    \/ ItemStart
    \/ ItemToyhouseSettles
    \/ ItemSecretsSettle
    \/ ItemSecretsMessageSettles
    \/ ItemBricklinkSettles
    \/ ItemImageUpdateSettles
    \/ ItemFailureMessageSettles
    \/ ItemTagsSettle

SpecItem == InitItem /\ [][NextItem]_vars

---------------------------------------------------------------------------
(* Properties of evaluateChecks                                            *)

Positions == 1..Len(strategies)
ExecutedEntries(cs) == {i \in 1..Len(cs) : cs[i].executed}
NamedAt(i, name) == i \in Positions /\ strategies[i].name = name

\* C1: the verdict evaluateChecks returns is the AND of `passed` over the
\* entries with executed = true, and false when no entry was executed.
C1_VerdictIsAndOfExecuted ==
    pc = "done" =>
        ret.check = (/\ ExecutedEntries(ret.checks) # {}
                     /\ \A i \in ExecutedEntries(ret.checks) : ret.checks[i].passed)

C1_Witness ==
    /\ pc = "done"
    /\ ret.check
    /\ Cardinality(ExecutedEntries(ret.checks)) >= 2
    /\ \E i \in 1..Len(ret.checks) : ~ret.checks[i].executed

\* a supported strategy whose checkTx throws synchronously or rejects
ThrowingAt(i) ==
    /\ Supports(strategies[i], tx) = "true"
    /\ CheckTxOutcome(strategies[i], tx) \in {"throw", "reject"}

\* the entry of a strategy, had its checkTx returned false where it throws
EntryAsIfFalse(s) ==
    IF Supports(s, tx) = "false" THEN CheckSummary(s.name, FALSE, FALSE)
    ELSE CheckSummary(s.name, TRUE, CheckTxOutcome(s, tx) = "true")

\* C2: an error thrown by the checkTx of a supported strategy is caught (the
\* evaluation is not rejected at that strategy), the strategy is reported
\* executed and not passed, the verdict is false, and every other entry is
\* what it would be had that checkTx returned false.
C2_CheckTxErrorIsolated ==
    \A i \in Positions : ThrowingAt(i) =>
        /\ pc = "rejected" => idx # i
        /\ Len(checks) >= i =>
              /\ checks[i] = CheckSummary(strategies[i].name, TRUE, FALSE)
              /\ ~overall
        /\ pc = "done" =>
              /\ ~ret.check
              /\ \A j \in Positions \ {i} :
                    ret.checks[j] = EntryAsIfFalse(strategies[j])

C2_Witness ==
    /\ pc = "done"
    /\ Len(strategies) = 3
    /\ ThrowingAt(2)
    /\ ret.checks[1].passed
    /\ ret.checks[3].passed

\* C3: evaluateChecks never throws or rejects, whatever supports and checkTx
\* of the strategies do.
C3_NeverRejects == pc # "rejected"

\* the verdict over the supported strategies alone
VerdictOfSupported ==
    LET sup == SelectSeq(strategies, LAMBDA s : Supports(s, tx) = "true") IN
      /\ sup # <<>>
      /\ \A k \in 1..Len(sup) : CheckTxOutcome(sup[k], tx) = "true"

\* C4: the returned list has one entry per strategy, in order, with the
\* strategy's name; executed is false exactly for the strategies whose
\* supports returned false; such entries have passed = false and the
\* verdict is the one of the supported strategies alone.
C4_OneEntryPerStrategy ==
    pc = "done" =>
        /\ Len(ret.checks) = Len(strategies)
        /\ \A i \in Positions :
              /\ ret.checks[i].name = strategies[i].name
              /\ ~ret.checks[i].executed <=> Supports(strategies[i], tx) = "false"
              /\ ~ret.checks[i].executed => ~ret.checks[i].passed
        /\ ret.check = VerdictOfSupported

C4_Witness ==
    /\ pc = "done"
    /\ Len(strategies) = 3
    /\ ~ret.checks[2].executed
    /\ ret.checks[1].executed
    /\ ret.checks[3].executed
    /\ ret.check

---------------------------------------------------------------------------
(* Properties of the base strategies, read off the entries they produce    *)

IsCompleteIgnoringCase(v) ==
    v.t = "string" /\ v.s \in {"complete", "Complete", "COMPLETE"}

\* C6 as claimed: type-and-status always runs; it passes if the completion
\* flag is true, and otherwise (flag absent, or present and not true) passes
\* exactly when the status is "complete" ignoring case.
C6_AsClaimed ==
    \A i \in Positions :
        (pc = "done" /\ NamedAt(i, "type-and-status")) =>
            /\ ret.checks[i].executed
            /\ ret.checks[i].passed =
                  (IF tx.completed = Bool(TRUE) THEN TRUE
                   ELSE IsCompleteIgnoringCase(tx.status))

\* C6 amended: type-and-status always runs; when the completion flag is a
\* boolean the check passes exactly when the flag is true (a false flag
\* fails whatever the status); when the flag is not a boolean the check
\* passes exactly when the status is "complete" ignoring case.
C6_FlagDecidesWhenBoolean ==
    \A i \in Positions :
        (pc = "done" /\ NamedAt(i, "type-and-status")) =>
            /\ ret.checks[i].executed
            /\ ret.checks[i].passed =
                  (IF tx.completed.t = "boolean" THEN tx.completed.b
                   ELSE IsCompleteIgnoringCase(tx.status))

C6_Witness ==
    /\ pc = "done"
    /\ NamedAt(1, "type-and-status")
    /\ tx.completed = Bool(FALSE)
    /\ tx.status = Str("Complete")
    /\ ret.checks[1].executed
    /\ ~ret.checks[1].passed

IsNonEmptyString(v) == v.t = "string" /\ v.s # ""

\* C7 as claimed: completed-timestamp is executed exactly when one of the two
\* fields is a non-empty string, passes exactly when one of them is truthy,
\* and so passes whenever it is executed.
C7_AsClaimed ==
    \A i \in Positions :
        (pc = "done" /\ NamedAt(i, "completed-timestamp")) =>
            /\ ret.checks[i].executed <=>
                  (IsNonEmptyString(tx.completed_at)
                     \/ IsNonEmptyString(tx.local_completed_at))
            /\ ret.checks[i].executed =>
                  (ret.checks[i].passed <=>
                      (Truthy(tx.completed_at) \/ Truthy(tx.local_completed_at)))
            /\ ret.checks[i].executed => ret.checks[i].passed

\* C7 amended: completed-timestamp is executed exactly when one of the two
\* fields is a string, empty or not; it passes exactly when one of them is
\* truthy; so an executed check fails when neither field is truthy.
C7_SupportsAnyString ==
    \A i \in Positions :
        (pc = "done" /\ NamedAt(i, "completed-timestamp")) =>
            /\ ret.checks[i].executed <=>
                  (tx.completed_at.t = "string"
                     \/ tx.local_completed_at.t = "string")
            /\ ret.checks[i].executed =>
                  (ret.checks[i].passed <=>
                      (Truthy(tx.completed_at) \/ Truthy(tx.local_completed_at)))

C7_Witness ==
    /\ pc = "done"
    /\ NamedAt(3, "completed-timestamp")
    /\ tx.completed_at = Str("")
    /\ tx.local_completed_at = Undefined
    /\ ret.checks[3].executed
    /\ ~ret.checks[3].passed

\* C8: balance-based is executed exactly when the balance is a number and
\* passes exactly when |balance| < 0.0001; a numeric balance of at least
\* that magnitude makes the verdict false whatever the other strategies do.
C8_BalanceTolerance ==
    \A i \in Positions :
        (pc = "done" /\ NamedAt(i, "balance-based")) =>
            /\ ret.checks[i].executed <=> tx.balance.t = "number"
            /\ ret.checks[i].executed =>
                  (ret.checks[i].passed <=>
                      (tx.balance.n > -BALANCE_TOLERANCE
                         /\ tx.balance.n < BALANCE_TOLERANCE))
            /\ (/\ tx.balance.t = "number"
                /\ (tx.balance.n >= BALANCE_TOLERANCE
                      \/ tx.balance.n <= -BALANCE_TOLERANCE)) => ~ret.check

C8_Witness ==
    /\ pc = "done"
    /\ Len(strategies) = 4
    /\ NamedAt(2, "balance-based")
    /\ tx.balance = Num(BALANCE_TOLERANCE)
    /\ ret.checks[1].passed
    /\ ret.checks[4].passed
    /\ ~ret.checks[2].passed
    /\ ~ret.check

\* C9 as claimed: for {id, type, completed?: true} and the three base
\* strategies there are three entries, all executed, and the verdict is true.
C9_AsClaimed ==
    (pc = "done" /\ tx = TxOnlyCompleted /\ strategies = BaseStrategies) =>
        /\ Len(ret.checks) = 3
        /\ \A i \in 1..3 : ret.checks[i].executed
        /\ ret.check

\* C9 amended: for {id, type, completed?: true} and the three base
\* strategies there are three entries; type-and-status is executed and
\* passes, balance-based and completed-timestamp are not executed, and the
\* verdict is true.
C9_OnlyTypeAndStatusExecuted ==
    (pc = "done" /\ tx = TxOnlyCompleted /\ strategies = BaseStrategies) =>
        /\ Len(ret.checks) = 3
        /\ ret.checks[1] = CheckSummary("type-and-status", TRUE, TRUE)
        /\ ret.checks[2] = CheckSummary("balance-based", FALSE, FALSE)
        /\ ret.checks[3] = CheckSummary("completed-timestamp", FALSE, FALSE)
        /\ ret.check

C9_Witness ==
    /\ pc = "done"
    /\ tx = TxOnlyCompleted
    /\ strategies = BaseStrategies
    /\ ret.returned
    /\ ret.check

---------------------------------------------------------------------------
(* Properties of InventoryNonNegativeStrategy.checkTx                      *)

\* C5: checkTx of a built-in strategy settles with true or false and never
\* throws or rejects, whatever its clients do: a rejected call and a
\* resolved but malformed response (a null body, a body without results)
\* alike.
C5_CheckTxNeverThrows == inv.result # "threw"

\* every API call of the evaluation resolved with a JSON object
ApiCallsSucceeded ==
    /\ world.linesMode \in {"ok", "noresults"}
    /\ \A i \in 1..Len(inv.seen) : inv.seen[i].mode \in {"ok", "noresults"}

\* the items of the ItemLine lines with a numeric, non-excluded item_id
CheckedItems ==
    {l.item_id.n : l \in {x \in Range(world.lines) :
                            /\ x.type = "ItemLine"
                            /\ x.item_id.t = "number"
                            /\ x.item_id.n \notin EXCLUDED_ITEM_IDS}}

\* C10: when all API calls succeed, the check fails exactly when an
\* inventory row of an item of an ItemLine with a numeric, non-excluded
\* item_id has no location or the ticket's location and a negative
\* effective quantity; inventory is fetched for those items only, and a
\* ticket without such a line passes without any fetch.
C10_FailsIffNegativeAtLocation ==
    (inv.pc = "settled" /\ ApiCallsSucceeded) =>
        /\ inv.result \in {"true", "false"}
        /\ inv.result = "false" <=>
              \E i \in 1..Len(inv.seen) : inv.seen[i].negative
        /\ {inv.seen[i].item : i \in 1..Len(inv.seen)} = CheckedItems
        /\ CheckedItems = {} => (inv.seen = <<>> /\ inv.result = "true")

C10_Witness ==
    /\ inv.pc = "settled"
    /\ ApiCallsSucceeded
    /\ inv.result = "false"
    /\ Len(inv.seen) = 2
    /\ ~inv.seen[1].negative
    /\ inv.seen[1].mode = "ok"
    /\ inv.seen[2].negative

----------------------------------------------------------------------------
\* C11: when getTicketLines rejects, or getInventoryValues rejects for any
\* item, the inventory check returns false, whatever the inventory values of
\* the other items were.
C11_RejectionFailsCheck ==
    (/\ inv.pc = "settled"
     /\ \/ world.linesMode = "reject"
        \/ \E i \in 1..Len(inv.seen) : inv.seen[i].mode = "reject")
    => inv.result = "false"

C11_Witness ==
    /\ inv.pc = "settled"
    /\ Len(inv.seen) = 2
    /\ inv.seen[1].mode = "ok"
    /\ ~inv.seen[1].negative
    /\ inv.seen[2].mode = "reject"
    /\ inv.result = "false"

HasExcludedLine ==
    \E i \in 1..Len(world.lines) :
        /\ world.lines[i].type = "ItemLine"
        /\ TypeOf(world.lines[i].item_id) = "number"
        /\ world.lines[i].item_id.n \in EXCLUDED_ITEM_IDS

AllItemLinesExcluded ==
    \A i \in 1..Len(world.lines) :
        (/\ world.lines[i].type = "ItemLine"
         /\ TypeOf(world.lines[i].item_id) = "number")
        => world.lines[i].item_id.n \in EXCLUDED_ITEM_IDS

ViolatedItems ==
    {inv.seen[i].item : i \in {j \in 1..Len(inv.seen) : inv.seen[j].negative}}

\* C13: when the inventory check fails with a GroupMe client configured,
\* sendMessage is called exactly once per violated item, however many rows
\* of that item are negative, and never when the check passes.
C13_OneMessagePerViolatedItem ==
    inv.pc = "settled" =>
        IF inv.result = "false" /\ world.groupMe /\ ApiCallsSucceeded
        THEN Len(inv.sent) = Cardinality(ViolatedItems)
        ELSE inv.sent = << >>

----------------------------------------------------------------------------
(* Properties of PriceAdjustedItemStrategy                                 *)

\* the lines the ticket-lines call delivered
DeliveredLines == IF world.linesMode = "ok" THEN world.lines ELSE << >>

LineIsAdjustedItemLine(line) ==
    /\ line.type = "ItemLine"
    /\ \/ line.adjusted_unit_price \notin {Null, Undefined}
       \/ (line.price_adjustments.isArray
           /\ line.price_adjustments.items # << >>)

AdjustedLinePositions ==
    {i \in 1..Len(DeliveredLines) : LineIsAdjustedItemLine(DeliveredLines[i])}

\* C15: the price-adjusted-item check fails if getTicketLines rejects;
\* otherwise it fails exactly when some ItemLine has a non-null
\* adjusted_unit_price or a non-empty price_adjustments list; a failing check
\* with a messaging client sends exactly one message per adjusted line.
C15_FailsIffAdjustedLine ==
    pa.pc = "settled" =>
        /\ world.linesMode = "reject" => pa.result = "false"
        /\ world.linesMode # "reject" =>
              /\ pa.result \in {"true", "false"}
              /\ pa.result = "false" <=> AdjustedLinePositions # {}
        /\ (pa.result = "false" /\ world.groupMe /\ world.linesMode # "reject")
              => Len(pa.sent) = Cardinality(AdjustedLinePositions)
        /\ pa.result = "true" => pa.sent = << >>

NumericDeltaPositions(line) ==
    {i \in 1..Len(line.price_adjustments.items) :
        /\ ~line.price_adjustments.items[i].isNull
        /\ line.price_adjustments.items[i].delta_price.t = "number"}

RECURSIVE SumAt(_, _)
SumAt(items, positions) ==
    IF positions = {} THEN 0
    ELSE LET i == CHOOSE j \in positions : TRUE
         IN items[i].delta_price.n + SumAt(items, positions \ {i})

\* the delta the claim expects in the message of an adjusted line
ExpectedDelta(line) ==
    IF line.price_adjustments.isArray /\ NumericDeltaPositions(line) # {}
    THEN ToString(SumAt(line.price_adjustments.items,
                        NumericDeltaPositions(line)))
    ELSE IF line.adjusted_unit_price.t = "number"
            /\ line.original_unit_price.t = "number"
         THEN ToString(line.adjusted_unit_price.n - line.original_unit_price.n)
         ELSE "unknown"

\* C16: the delta reported for an adjusted line is the sum of the numeric
\* delta_price values of its itemized adjustments when there is one, else
\* adjusted_unit_price minus original_unit_price when both are numbers,
\* else "unknown"; adjusted 15 with original 75 and no itemized adjustment,
\* and a lone itemized adjustment of -60, both report -60.
C16_ReportedDelta ==
    \A i \in 1..Len(pa.sent) :
        LET line == pa.adjustedItems[i] IN
        /\ pa.sent[i].delta = ExpectedDelta(line)
        /\ line = PricedLine("ItemLine", Num(15), Num(75), NotArray)
             => pa.sent[i].delta = "-60"
        /\ line = PricedLine("ItemLine", Undefined, Undefined,
                             Array(<<Entry(Num(-60))>>))
             => pa.sent[i].delta = "-60"

C16_Witness ==
    /\ pa.pc = "settled"
    /\ Len(pa.sent) = 2
    /\ pa.adjustedItems[1] = PricedLine("ItemLine", Num(15), Num(75), NotArray)
    /\ pa.sent[1].delta = "-60"
    /\ pa.adjustedItems[2] =
         PricedLine("ItemLine", Num(15), Num(75),
                    Array(<<Entry(Num(-60)), Entry(Num(5))>>))
    /\ pa.sent[2].delta = "-55"

----------------------------------------------------------------------------
(* Properties of HighDiscountTicketStrategy                                *)

DiscountDataUsable ==
    /\ tx.original_subtotal.t = "number"
    /\ tx.total_discounts.t = "number"
    /\ tx.original_subtotal.n > 0

\* total_discounts / original_subtotal * 100 > 5, as a comparison of the
\* amounts themselves
DiscountAboveFivePercent ==
    tx.total_discounts.n * 100 > 5 * tx.original_subtotal.n

DiscountExactlyFivePercent ==
    tx.total_discounts.n * 100 = 5 * tx.original_subtotal.n

\* C17: the high-discount check fails exactly when original_subtotal and
\* total_discounts are numbers, original_subtotal > 0 and the discount is
\* strictly more than 5% of it; a discount of exactly 5% passes, and so
\* does missing, non-numeric or non-positive-subtotal data.
C17_FailsIffAboveFivePercent ==
    hd.pc = "settled" =>
        /\ hd.result = "false" <=>
              (DiscountDataUsable /\ DiscountAboveFivePercent)
        /\ (DiscountDataUsable /\ DiscountExactlyFivePercent)
              => hd.result = "true"
        /\ ~DiscountDataUsable => hd.result = "true"

C19_SmallDiscountNotAlerted ==
    (/\ hd.pc = "settled"
     /\ DiscountDataUsable
     /\ DiscountAboveFivePercent
     /\ tx.total_discounts.n <= 500
     /\ world.groupMe)
    => (hd.result = "false" /\ hd.sent = 0)

----------------------------------------------------------------------------
(* Properties of the alerts of the three strategies                        *)

InventoryViolationFound ==
    inv.pc = "settled" /\ ApiCallsSucceeded /\ inv.negatives # << >>

PriceAdjustmentFound == pa.pc = "settled" /\ pa.adjustedItems # << >>

HighDiscountFound ==
    /\ hd.pc = "settled"
    /\ DiscountDataUsable
    /\ ExceedsThreshold(tx.total_discounts, tx.original_subtotal)

\* C14: for the inventory, price-adjusted and high-discount strategies the
\* verdict of checkTx is the same whether the sendMessage calls succeed or
\* fail and whether or not a client is configured: a run that found a
\* violation returns false in each case, a failed send never escapes as an
\* exception, and a passing run sends nothing.
C14_AlertsNeverChangeVerdict ==
    /\ InventoryViolationFound => inv.result = "false"
    /\ PriceAdjustmentFound => pa.result = "false"
    /\ HighDiscountFound => hd.result = "false"
    /\ inv.sendFailed => inv.result = "false"
    /\ pa.sendFailed => pa.result = "false"
    /\ (hd.pc = "settled" /\ hd.sendFailed) => hd.result = "false"
    /\ inv.result = "true" => (inv.sent = << >> /\ ~inv.sendFailed)
    /\ pa.result = "true" => (pa.sent = << >> /\ ~pa.sendFailed)
    /\ (hd.pc = "settled" /\ hd.result = "true")
         => (hd.sent = 0 /\ ~hd.sendFailed)

C14_Witness ==
    /\ pa.pc = "settled"
    /\ world.groupMe
    /\ Len(pa.sent) = 2
    /\ pa.sendFailed
    /\ pa.result = "false"

----------------------------------------------------------------------------
(* Properties of the strategy list built at module load                    *)

Configured(v) == v.t = "string" /\ v.s # ""

\* the secret call was made and delivered a JSON object with a token
TokenObtained ==
    /\ boot.secretCalls > 0
    /\ ~boot.secret.rejects
    /\ boot.secret.SecretString = Str("{\"token\":\"t\"}")

BuiltList == boot.cachedStrategies

\* C20: the list built at cold start begins with type-and-status,
\* balance-based, completed-timestamp; the inventory strategy is in it exactly
\* when the base URL and the secret reference are configured and the token
\* was obtained; a failure to obtain the token leaves the three base
\* strategies, and the handler still answers; a missing bot id does not keep
\* the inventory strategy out.
C20_StrategyListAtColdStart ==
    /\ boot.pc = "built" =>
          /\ Len(BuiltList) \in {3, 4}
          /\ SubSeq(BuiltList, 1, 3) = BaseStrategyNames
          /\ (InventoryStrategyName \in Range(BuiltList)) <=>
                (/\ Configured(boot.env.baseUrl)
                 /\ Configured(boot.env.secretArn)
                 /\ TokenObtained)
          /\ ~TokenObtained => BuiltList = BaseStrategyNames
          /\ (/\ Configured(boot.env.baseUrl)
              /\ Configured(boot.env.secretArn)
              /\ TokenObtained
              /\ ~Configured(boot.env.botId))
             => BuiltList = Append(BaseStrategyNames, InventoryStrategyName)
    /\ pc # "rejected"
    /\ (boot.response # NoResponse /\ boot.body = "object") =>
          /\ boot.response.statusCode = 200
          /\ boot.response.status = "ok"
          /\ Len(boot.response.checks) = Len(BuiltList)

C20_Witness ==
    /\ boot.pc = "built"
    /\ Configured(boot.env.baseUrl)
    /\ Configured(boot.env.secretArn)
    /\ boot.secret = Secret(FALSE, Str("not json"))
    /\ BuiltList = BaseStrategyNames
    /\ boot.response.statusCode = 200
    /\ Len(boot.response.checks) = 3

----------------------------------------------------------------------------
(* Properties of the order of the calls of evaluateChecks                  *)

TimesIn(seq, x) == Cardinality({k \in 1..Len(seq) : seq[k] = x})

IsIncreasing(seq) == \A k \in 1..(Len(seq) - 1) : seq[k] < seq[k + 1]

\* C25: within one evaluateChecks call the strategies are evaluated one
\* after another: a checkTx is started only when every checkTx started
\* before it has settled, so at most one checkTx is in flight at any time.
C25_OneCheckTxInFlight ==
    /\ calls.inFlight \in {0, 1}
    /\ calls.inFlight = 1 <=> pc = "awaiting"
    /\ IsIncreasing(calls.checkTx)
    /\ pc = "awaiting" => calls.checkTx[Len(calls.checkTx)] = idx

C25_Witness ==
    /\ pc = "awaiting"
    /\ Len(calls.checkTx) = 2
    /\ calls.inFlight = 1
    /\ Len(checks) >= 1

EvaluateChecksSettled == pc \in {"done", "rejected"}

\* C26: evaluateChecks never short-circuits: supports is called exactly
\* once on every strategy of the list, whatever earlier strategies returned
\* or threw, and checkTx exactly once on exactly the strategies whose
\* supports returned true.
C26_NoShortCircuit ==
    EvaluateChecksSettled =>
        \A i \in Positions :
            /\ TimesIn(calls.supports, i) = 1
            /\ TimesIn(calls.checkTx, i) =
                 IF Supports(strategies[i], tx) = "true" THEN 1 ELSE 0

----------------------------------------------------------------------------
(* Properties of a rejected inventory fetch                                *)

RejectedFetches == {i \in 1..Len(inv.seen) : inv.seen[i].mode = "reject"}

\* C28: when getInventoryValues rejects for an item, the inventory check
\* returns false at once: no message is sent, even when earlier items showed
\* negative inventory, and no inventory is fetched for the items after it.
C28_RejectionEndsCheck ==
    RejectedFetches # {} =>
        /\ inv.pc = "settled"
        /\ inv.result = "false"
        /\ inv.sent = << >>
        /\ ~inv.sendFailed
        /\ RejectedFetches = {Len(inv.seen)}

C28_Witness ==
    /\ inv.pc = "settled"
    /\ world.groupMe
    /\ Len(inv.itemIds) = 2
    /\ Len(inv.seen) = 2
    /\ inv.seen[1].negative
    /\ inv.negatives # << >>
    /\ inv.seen[2].mode = "reject"
    /\ inv.sent = << >>

----------------------------------------------------------------------------
(* Properties of the item_created handler                                  *)

\* C24: the item_created handler returns HTTP 200 with body {status: "ok"}
\* for every request: a missing or unparseable body, missing configuration,
\* secret errors, lookup errors, image or tag update errors and messaging
\* errors never make it throw or return another status.
C24_ItemHandlerAlwaysOk ==
    /\ itemReq.pc # "threw"
    /\ itemReq.pc = "returned" => itemReq.response = OkResponse
    /\ itemReq.response \in {ItemIdle.response, OkResponse}

C24_Witness ==
    /\ itemReq.pc = "returned"
    /\ itemReq.response = OkResponse
    /\ itemReq.body = "ok"
    /\ itemReq.imageFailureReason = Str("BrickLink lookup failed")
    /\ itemReq.messages = 1
    /\ ~itemReq.tagsUpdated

----------------------------------------------------------------------------
(* Properties of the transaction handler                                   *)

\* C21: within one process lifetime every build of the strategy list returns
\* the list of the first build, the same array with the same strategies in
\* the same order, and the secret store is queried at most once, so never
\* again once a token has been obtained.
C21_BuildsYieldFirstList ==
    /\ boot.returned # NoList => boot.returned = boot.first
    /\ boot.constructed <= 1
    /\ boot.secretCalls <= 1
    /\ Truthy(boot.cachedHeartlandToken) => boot.secretCalls = 1
    /\ boot.inFlight =>
          [i \in 1..Len(strategies) |-> strategies[i].name] = boot.first.names

C21_Witness ==
    /\ boot.builds >= 2
    /\ boot.returned = boot.first
    /\ boot.first.names = Append(BaseStrategyNames, InventoryStrategyName)
    /\ Truthy(boot.cachedHeartlandToken)
    /\ boot.secretCalls = 1
    /\ boot.invocations >= 1

\* the request in progress or answered went through classifyTransaction
\* and evaluateChecks
Classifies == boot.kind # ""

\* C22: classifyTransaction returns "sale" for the type 'Ticket' and
\* "return" for the type 'Return' whatever the total; for any other type
\* "sale" for a positive number as total, "return" for a negative one, and
\* "other" for a total that is zero, absent or not a number; it has a result
\* for every transaction object and leaves the transaction as it was.
C22_ClassifyTransaction ==
    Classifies =>
      /\ boot.kind \in {"sale", "return", "other"}
      /\ boot.kind = ClassifyTransaction(tx)
      /\ tx.type = Str("Ticket") => boot.kind = "sale"
      /\ tx.type = Str("Return") => boot.kind = "return"
      /\ tx.type \notin {Str("Ticket"), Str("Return")} =>
            /\ (TypeOf(tx.total) = "number" /\ tx.total.n > 0)
                  => boot.kind = "sale"
            /\ (TypeOf(tx.total) = "number" /\ tx.total.n < 0)
                  => boot.kind = "return"
            /\ (TypeOf(tx.total) # "number" \/ tx.total.n = 0)
                  => boot.kind = "other"
      /\ (boot.response # NoResponse /\ boot.response # HandlerThrew) =>
            boot.response.transactionKind = boot.kind

C22_Witness ==
    /\ Classifies
    /\ tx.type = Str("Ticket")
    /\ tx.total = Num(-5)
    /\ boot.response.statusCode = 200
    /\ boot.response.transactionKind = "sale"

\* C23: a request without a body, or with a body that is not valid JSON, is
\* answered with HTTP 200, status "ok", transactionKind "other", check false
\* and no checks, and no supports or checkTx is called for it.
C23_NoTransactionInBody ==
    boot.body \in {"none", "empty", "invalid"} =>
      /\ boot.response = EarlyResponse
      /\ ~boot.inFlight
      /\ calls = NoCalls

C23_Witness ==
    /\ boot.body = "invalid"
    /\ boot.pc = "awaitingSecret"
    /\ boot.response = EarlyResponse
    /\ calls = NoCalls

\* the first build asked the secret store and did not get a token
FirstBuildSecretFailed ==
    boot.secret # NoSecret /\ TokenOf(boot.secret) = Thrown

\* C29: when the secret fetch fails during the first build, the three base
\* strategies are cached for the process: every later build and every
\* later invocation gets them, the inventory strategy is never added and
\* the secret store is not asked again.
C29_FirstBuildIsPermanent ==
    FirstBuildSecretFailed =>
      /\ boot.cachedStrategies = BaseStrategyNames
      /\ boot.first.names = BaseStrategyNames
      /\ boot.returned # NoList => boot.returned.names = BaseStrategyNames
      /\ boot.secretCalls = 1
      /\ boot.inFlight =>
            [i \in 1..Len(strategies) |-> strategies[i].name]
               = BaseStrategyNames
      /\ (boot.response # NoResponse /\ boot.body = "object") =>
            Len(boot.response.checks) = 3

C29_Witness ==
    /\ FirstBuildSecretFailed
    /\ boot.builds >= 2
    /\ boot.returned.names = BaseStrategyNames
    /\ boot.invocations >= 2
    /\ boot.body = "object"
    /\ Len(boot.response.checks) = 3

\* C30: every request whose body parses as JSON, null, a number, a string or
\* an array included, is answered with HTTP 200, status "ok" and one check
\* per configured strategy; the handler never throws.
C30_AnyJsonIsAnswered ==
    /\ boot.response # HandlerThrew
    /\ (HasTransaction(boot.body) /\ boot.response # NoResponse) =>
          /\ boot.response.statusCode = 200
          /\ boot.response.status = "ok"
          /\ Len(boot.response.checks) = Len(boot.first.names)

----------------------------------------------------------------------------
(* Termination of evaluateChecks                                           *)

\* C27: when every awaited call settles, every evaluateChecks invocation
\* eventually returns a result with one entry per strategy.
C27_EvaluateChecksReturns ==
    <>(/\ pc = "done"
       /\ ret.returned
       /\ Len(ret.checks) = Len(strategies))

============================================================================
